---- MODULE Spec2Model ----
(***************************************************************************)
(* State-machine model of the Server orchestrator of                       *)
(* src/src/connectionInfo/connection.ts (class Server, lines 253-476):     *)
(* the open/close lifecycle over its two sub-servers and the reload policy *)
(* applied to the workspace's file-system events; and of the Connection    *)
(* (lines 32-205) with its serverPortAttributesProvider (lines 207-232):   *)
(* the ports, the connected() event, the host reset, the root prefix and   *)
(* getFileRelativeToWorkspace.                                             *)
(*                                                                         *)
(* HttpServer and WSServer are not part of the source file; they are       *)
(* modelled from their contract (spec section 4.3): start() puts a bind    *)
(* attempt in flight, a successful bind fires onConnected with the port    *)
(* actually bound, close() shuts the listener down.  Whether close() also  *)
(* withdraws a bind attempt that is still in flight is not fixed by the    *)
(* contract, so closeServer chooses nondeterministically which in-flight   *)
(* attempts survive.                                                       *)
(***************************************************************************)
EXTENDS Integers, FiniteSets, Sequences, TLC

\* ------------------------------------------------------------------ bounds
\* successful and failed openServer calls considered in one behaviour
MaxOpens == 2
\* a sub-server may bind up to MaxBump ports above the port it was asked for
MaxBump == 1
\* largest contentChanges.length of a document-changed event
MaxChanges == 1

\* ------------------------------------------------------- values of the code
\* an optional port that is absent (PortInfo.port?, PortInfo.ws_port?); the
\* handlers test it for truthiness, which 0 fails like undefined
NoPort == 0

\* ports the caller passes to openServer
OpenPorts == {8080, 8083}

\* GetWorkspacePath(): a path, or undefined (modelled as the empty string,
\* which "?? ''" turns it into wherever the code uses it)
WorkspacePaths == {"", "/ws"}

\* the auto-refresh policy setting
AutoRefreshPreview == {"off", "onSave", "onAnyChange"}

VARIABLES
    extensionUri,      \* Server._extensionUri is set (an extension context exists)
    workspacePath,     \* Server._workspacePath ("" when undefined)
    isServerOn,        \* Server._isServerOn
    config,            \* GetConfig(): [autoRefreshPreview, showServerStatusPopUps]
    statusBar,         \* StatusBarNotifier: [on, port]
    statusMessage,     \* last message handed to showInformationMessage
    httpPort,          \* HttpServer.port
    injectorWSPort,    \* the WS port the HTTP server injects into pages
    httpListening,     \* the HTTP listener is bound
    httpPending,       \* HTTP bind attempts in flight
    wsPort,            \* WSServer.ws_port
    wsListening,       \* the WS listener is bound
    wsPending,         \* WS bind attempts in flight
    \* history of the calls and events, for the properties
    openCalls,         \* openServer calls, [ok, failed]
    lastOpen,          \* the last openServer call: [called, port, result]
    httpStarts,        \* HttpServer.start calls
    httpReports,       \* HTTP onConnected events
    wsStarts,          \* WSServer.start calls
    wsReports,         \* WS onConnected events
    lastWsStart,       \* the last WSServer.start call: [port, root, byReport]
    lastWsBound,       \* the port of the last WS onConnected event
    fullyConnected,    \* onFullyConnected: [count, port, injector, wsBound]
    openSinceWsReport, \* a successful openServer call followed the last WS report
    closedSinceOpen,   \* closeServer was called after the last successful openServer
    policyChangedFrom, \* policy before the change that no event followed yet
    fsEvent            \* last file-system event: [kind, changes, policy (in force
                       \* at the event), broadcasts (refreshBrowsers calls it
                       \* caused), changedFrom (the policy before, when the
                       \* policy changed right before the event),
                       \* afterChangeOnSave (the event is a save and the
                       \* event before it was a document-changed event
                       \* under onSave)]

VARIABLES
    connWorkspace,     \* Connection._workspace: [defined, path]
    connRootPrefix,    \* Connection._rootPrefix, a relative path
    connHttpPort,      \* Connection._httpPort
    connWsPort,        \* Connection._wsPort
    portAttributes,    \* serverPortAttributesProvider: [httpPort, wsPort]
    host,              \* Connection.host
    calls,             \* connected() calls suspended at an await
    callStats,         \* connected(): [started, completed, rejected, emitted]
    lastInfo,          \* the last ConnectionInfo fired by onConnected
    serveRoot,         \* the serve root configured in the settings
    rootPending,       \* GetValidServerRootForWorkspace calls not yet resolved
    rootStats,         \* configuration changes: [changes, started]
    resetRow,          \* the resetHostToDefault calls made in a row
    sep,               \* the platform's path separator
    pathQuery          \* the last getFileRelativeToWorkspace call

serverVars == <<extensionUri, workspacePath, isServerOn, statusBar, statusMessage,
                httpPort, injectorWSPort, httpListening, httpPending,
                wsPort, wsListening, wsPending>>

historyVars == <<openCalls, lastOpen, httpStarts, httpReports, wsStarts, wsReports,
                 lastWsStart, lastWsBound, fullyConnected, openSinceWsReport,
                 closedSinceOpen>>

reloadVars == <<policyChangedFrom, fsEvent>>

connVars == <<connWorkspace, connRootPrefix, connHttpPort, connWsPort,
              portAttributes, host, calls, callStats, lastInfo, serveRoot,
              rootPending, rootStats, resetRow, sep, pathQuery>>

vars == <<serverVars, historyVars, config, reloadVars, connVars>>

NoMessage == [text |-> "none", port |-> NoPort]

NoEvent == [kind |-> "none", changes |-> 0, policy |-> "off", broadcasts |-> 0,
            changedFrom |-> "none", afterChangeOnSave |-> FALSE]

\* the state after `new Server(extensionUri)`
ServerConstructed ==
    /\ extensionUri \in BOOLEAN
    /\ workspacePath \in WorkspacePaths
    /\ isServerOn = FALSE
    /\ config \in [autoRefreshPreview : AutoRefreshPreview,
                   showServerStatusPopUps : BOOLEAN]
    /\ statusBar = [on |-> FALSE, port |-> NoPort]
    /\ statusMessage = NoMessage
    /\ httpPort = NoPort
    /\ injectorWSPort = NoPort
    /\ httpListening = FALSE
    /\ httpPending = {}
    /\ wsPort = NoPort
    /\ wsListening = FALSE
    /\ wsPending = {}
    /\ openCalls = [ok |-> 0, failed |-> 0]
    /\ lastOpen = [called |-> FALSE, port |-> NoPort, result |-> FALSE]
    /\ httpStarts = 0
    /\ httpReports = 0
    /\ wsStarts = 0
    /\ wsReports = 0
    /\ lastWsStart = [port |-> NoPort, root |-> "", byReport |-> 0]
    /\ lastWsBound = NoPort
    /\ fullyConnected = [count |-> 0, port |-> NoPort, injector |-> NoPort,
                         wsBound |-> NoPort]
    /\ openSinceWsReport = FALSE
    /\ closedSinceOpen = FALSE
    /\ policyChangedFrom = "none"
    /\ fsEvent = NoEvent

\* --------------------------------------------------------------- settings
\* Server._reloadOnAnyChange: reads the setting at every use
reloadOnAnyChange == config.autoRefreshPreview = "onAnyChange"

\* C10 mutant: the getter answers from the policy read before the last change
reloadOnSaveCached ==
    IF policyChangedFrom # "none"
    THEN policyChangedFrom = "onSave"
    ELSE config.autoRefreshPreview = "onSave"

\* Server._reloadOnSave: reads the setting at every use
reloadOnSave == config.autoRefreshPreview = "onSave"

\* Server.showServerStatusMessage: the message the user sees after the call
showServerStatusMessage(message) ==
    IF config.showServerStatusPopUps THEN message ELSE statusMessage

\* ------------------------------------------- sub-servers (their contract)
\* HttpServer.start(port, root): one more bind attempt in flight; `injector`
\* records the injector WS port the server holds when it is started
HttpStart(port, root, injector) ==
    /\ httpPending' = httpPending \cup
          {[id |-> httpStarts + 1, port |-> port, root |-> root,
            injector |-> injector]}
    /\ httpStarts' = httpStarts + 1

\* WSServer.start(port, root, context): one more bind attempt in flight
WsStart(port, root) ==
    /\ wsPending' = wsPending \cup
          {[id |-> wsStarts + 1, port |-> port, root |-> root]}
    /\ wsStarts' = wsStarts + 1
    /\ lastWsStart' = [port |-> port, root |-> root, byReport |-> httpReports']

\* the ports a bind attempt for port p may end up bound to
BoundPorts(p) == p .. (p + MaxBump)

\* ---------------------------------------------------- Server: open / close
\* the provisional WS port openServer hands to the injector
ProvisionalWSPort(port) == port + 1

\* C3 mutant: openServer starts the WS server itself, on port + 1
openServerStartsWs(port) ==
    /\ openCalls.ok + openCalls.failed < MaxOpens
    /\ IF extensionUri
       THEN LET injector == ProvisionalWSPort(port) IN
            /\ injectorWSPort' = injector
            /\ HttpStart(port, workspacePath, injector)
            /\ httpReports' = httpReports
            /\ WsStart(port + 1, workspacePath)
            /\ openCalls' = [openCalls EXCEPT !.ok = @ + 1]
            /\ lastOpen' = [called |-> TRUE, port |-> port, result |-> TRUE]
            /\ openSinceWsReport' = TRUE
            /\ closedSinceOpen' = FALSE
            /\ UNCHANGED <<extensionUri, workspacePath, isServerOn, statusBar,
                           statusMessage, httpPort, httpListening, wsPort,
                           wsListening, wsReports, lastWsBound, fullyConnected>>
       ELSE /\ openCalls' = [openCalls EXCEPT !.failed = @ + 1]
            /\ lastOpen' = [called |-> TRUE, port |-> port, result |-> FALSE]
            /\ UNCHANGED <<serverVars, httpStarts, httpReports, wsStarts,
                           wsReports, lastWsStart, lastWsBound, fullyConnected,
                           openSinceWsReport, closedSinceOpen>>
    /\ UNCHANGED <<config, reloadVars, connVars>>

\* C5 mutant: the HTTP server is started before the injector is given the
\* provisional WS port
openServerStartsFirst(port) ==
    /\ openCalls.ok + openCalls.failed < MaxOpens
    /\ IF extensionUri
       THEN /\ HttpStart(port, workspacePath, injectorWSPort)
            /\ injectorWSPort' = ProvisionalWSPort(port)
            /\ openCalls' = [openCalls EXCEPT !.ok = @ + 1]
            /\ lastOpen' = [called |-> TRUE, port |-> port, result |-> TRUE]
            /\ openSinceWsReport' = TRUE
            /\ closedSinceOpen' = FALSE
            /\ UNCHANGED <<extensionUri, workspacePath, isServerOn, statusBar,
                           statusMessage, httpPort, httpListening, wsPort,
                           wsListening, wsPending, httpReports, wsStarts,
                           wsReports, lastWsStart, lastWsBound, fullyConnected>>
       ELSE /\ openCalls' = [openCalls EXCEPT !.failed = @ + 1]
            /\ lastOpen' = [called |-> TRUE, port |-> port, result |-> FALSE]
            /\ UNCHANGED <<serverVars, httpStarts, httpReports, wsStarts,
                           wsReports, lastWsStart, lastWsBound, fullyConnected,
                           openSinceWsReport, closedSinceOpen>>
    /\ UNCHANGED <<config, reloadVars, connVars>>

\* Server.openServer(port)
openServer(port) ==
    /\ openCalls.ok + openCalls.failed < MaxOpens
    /\ IF extensionUri
       THEN LET injector == ProvisionalWSPort(port) IN
            /\ injectorWSPort' = injector
            /\ HttpStart(port, workspacePath, injector)
            /\ openCalls' = [openCalls EXCEPT !.ok = @ + 1]
            /\ lastOpen' = [called |-> TRUE, port |-> port, result |-> TRUE]
            /\ openSinceWsReport' = TRUE
            /\ closedSinceOpen' = FALSE
            /\ UNCHANGED <<extensionUri, workspacePath, isServerOn, statusBar,
                           statusMessage, httpPort, httpListening, wsPort,
                           wsListening, wsPending, httpReports, wsStarts,
                           wsReports, lastWsStart, lastWsBound, fullyConnected>>
       ELSE /\ openCalls' = [openCalls EXCEPT !.failed = @ + 1]
            /\ lastOpen' = [called |-> TRUE, port |-> port, result |-> FALSE]
            /\ UNCHANGED <<serverVars, httpStarts, httpReports, wsStarts,
                           wsReports, lastWsStart, lastWsBound, fullyConnected,
                           openSinceWsReport, closedSinceOpen>>
    /\ UNCHANGED <<config, reloadVars, connVars>>

\* C11 mutant: closeServer returns at once unless the server is running
closeServerOnlyWhenOn(keepHttp, keepWs) ==
    /\ keepHttp \subseteq httpPending
    /\ keepWs \subseteq wsPending
    /\ IF isServerOn
       THEN /\ httpPending' = keepHttp
            /\ httpListening' = FALSE
            /\ wsPending' = keepWs
            /\ wsListening' = FALSE
            /\ isServerOn' = FALSE
            /\ statusBar' = [on |-> FALSE, port |-> NoPort]
            /\ statusMessage' =
                  showServerStatusMessage([text |-> "Server Closed",
                                           port |-> NoPort])
       ELSE UNCHANGED <<httpPending, httpListening, wsPending, wsListening,
                        isServerOn, statusBar, statusMessage>>
    /\ closedSinceOpen' = TRUE
    /\ UNCHANGED <<extensionUri, workspacePath, httpPort, injectorWSPort, wsPort,
                   openCalls, lastOpen, httpStarts, httpReports, wsStarts,
                   wsReports, lastWsStart, lastWsBound, fullyConnected,
                   openSinceWsReport, config, reloadVars, connVars>>

\* Server.closeServer(); keepHttp and keepWs are the bind attempts in flight
\* that the sub-servers' close() does not withdraw
closeServer(keepHttp, keepWs) ==
    /\ keepHttp \subseteq httpPending
    /\ keepWs \subseteq wsPending
    /\ httpPending' = keepHttp
    /\ httpListening' = FALSE
    /\ wsPending' = keepWs
    /\ wsListening' = FALSE
    /\ isServerOn' = FALSE
    /\ statusBar' = [on |-> FALSE, port |-> NoPort]
    /\ statusMessage' = showServerStatusMessage([text |-> "Server Closed",
                                                 port |-> NoPort])
    /\ closedSinceOpen' = TRUE
    /\ UNCHANGED <<extensionUri, workspacePath, httpPort, injectorWSPort, wsPort,
                   openCalls, lastOpen, httpStarts, httpReports, wsStarts,
                   wsReports, lastWsStart, lastWsBound, fullyConnected,
                   openSinceWsReport, config, reloadVars, connVars>>

\* ------------------------------------------- Server: the bound-port reports
\* C4 mutant: the listener reads the HTTP port of the PortInfo, not ws_port
onPortChangeHttpPort(e, injector) ==
    IF e.port # NoPort THEN e.port ELSE injector

\* the onPortChange listener of the constructor: the injector WS port after
\* PortInfo e has been fired
onPortChange(e, injector) ==
    IF e.ws_port # NoPort THEN e.ws_port ELSE injector

\* C1 mutant: the server is marked running as soon as the HTTP server is bound
httpServerConnectedMarksOn ==
    /\ WsStart(httpPort' + 1, workspacePath)
    /\ isServerOn' = TRUE
    /\ UNCHANGED <<statusBar, statusMessage, fullyConnected>>

\* C2 mutant: onFullyConnected is fired for the HTTP report as well
httpServerConnectedFires ==
    /\ WsStart(httpPort' + 1, workspacePath)
    /\ fullyConnected' = [fullyConnected EXCEPT !.count = @ + 1]
    /\ UNCHANGED <<isServerOn, statusBar, statusMessage>>

\* C16 mutant: the WS server is asked for the port passed to openServer plus
\* one
httpServerConnectedOpenPort ==
    /\ WsStart(lastOpen.port + 1, workspacePath)
    /\ UNCHANGED <<isServerOn, statusBar, statusMessage, fullyConnected>>

\* Server.httpServerConnected()
httpServerConnected ==
    /\ WsStart(httpPort' + 1, workspacePath)
    /\ UNCHANGED <<isServerOn, statusBar, statusMessage, fullyConnected>>

\* the _httpServer.onConnected listener, run when bind attempt b of the HTTP
\* server succeeds on port e
HttpConnected(b, e) ==
    /\ b \in httpPending
    /\ e \in BoundPorts(b.port)
    /\ httpPending' = httpPending \ {b}
    /\ httpListening' = TRUE
    /\ httpPort' = e
    /\ httpReports' = httpReports + 1
    /\ injectorWSPort' = onPortChange([port |-> e, ws_port |-> NoPort],
                                      injectorWSPort)
    /\ httpServerConnected
    /\ UNCHANGED <<extensionUri, workspacePath, wsPort, wsListening, openCalls,
                   lastOpen, httpStarts, wsReports, lastWsBound,
                   openSinceWsReport, closedSinceOpen, config, reloadVars, connVars>>

\* Server.wsServerConnected()
wsServerConnected ==
    /\ isServerOn' = TRUE
    /\ statusBar' = [on |-> TRUE, port |-> httpPort]
    /\ statusMessage' = showServerStatusMessage([text |-> "Server Opened",
                                                 port |-> httpPort])
    /\ fullyConnected' = [count |-> fullyConnected.count + 1,
                          port |-> httpPort,
                          injector |-> injectorWSPort',
                          wsBound |-> lastWsBound']

\* the _wsServer.onConnected listener, run when bind attempt b of the WS
\* server succeeds on port e
WsConnected(b, e) ==
    /\ b \in wsPending
    /\ e \in BoundPorts(b.port)
    /\ wsPending' = wsPending \ {b}
    /\ wsListening' = TRUE
    /\ wsPort' = e
    /\ wsReports' = wsReports + 1
    /\ lastWsBound' = e
    /\ injectorWSPort' = onPortChange([port |-> NoPort, ws_port |-> e],
                                      injectorWSPort)
    /\ wsServerConnected
    /\ openSinceWsReport' = FALSE
    /\ UNCHANGED <<extensionUri, workspacePath, httpPort, httpListening,
                   httpPending, openCalls, lastOpen, httpStarts, httpReports,
                   wsStarts, lastWsStart, closedSinceOpen, config, reloadVars, connVars>>

\* the user answers a status message with "Don't Show Again"
DontShowAgain ==
    /\ statusMessage # NoMessage
    /\ config.showServerStatusPopUps
    /\ config' = [config EXCEPT !.showServerStatusPopUps = FALSE]
    /\ UNCHANGED <<serverVars, historyVars, reloadVars, connVars>>

\* ------------------------------------------ Server: file-system listeners
\* Each listener is given by the number of WSServer.refreshBrowsers() calls
\* (reload broadcasts) it makes for one event.

\* the first onDidChangeTextDocument listener; n is e.contentChanges.length
onDidChangeTextDocument(n) ==
    IF n > 0 /\ reloadOnAnyChange THEN 1 ELSE 0

\* the second onDidChangeTextDocument listener, registered right after
onDidChangeTextDocument2(n) ==
    IF n > 0 /\ reloadOnAnyChange THEN 1 ELSE 0

\* C7 mutant: the save listener tests the on-any-change policy
onDidSaveTextDocumentAnyChange ==
    IF reloadOnAnyChange THEN 1 ELSE 0

onDidSaveTextDocument ==
    IF reloadOnSave THEN 1 ELSE 0

onDidRenameFiles ==
    IF reloadOnAnyChange \/ reloadOnSave THEN 1 ELSE 0

\* C9 mutant: the delete listener tests the on-any-change policy alone
onDidDeleteFilesAnyChange ==
    IF reloadOnAnyChange THEN 1 ELSE 0

onDidDeleteFiles ==
    IF reloadOnAnyChange \/ reloadOnSave THEN 1 ELSE 0

\* C8 mutant: the create listener broadcasts whatever the policy
onDidCreateFilesAlways ==
    IF TRUE THEN 1 ELSE 0

onDidCreateFiles ==
    IF reloadOnAnyChange \/ reloadOnSave THEN 1 ELSE 0

\* the host delivers one event to every listener registered for it; the
\* history keeps the policy in force and the broadcasts the listeners made
Deliver(kind, n, broadcasts) ==
    /\ fsEvent' = [kind |-> kind, changes |-> n,
                   policy |-> config.autoRefreshPreview,
                   broadcasts |-> broadcasts,
                   changedFrom |-> policyChangedFrom,
                   afterChangeOnSave |-> /\ kind = "documentSaved"
                                         /\ fsEvent.kind = "documentChanged"
                                         /\ fsEvent.policy = "onSave"]
    /\ policyChangedFrom' = "none"
    /\ UNCHANGED <<serverVars, historyVars, config, connVars>>

DocumentChanged(n) ==
    Deliver("documentChanged", n,
            onDidChangeTextDocument(n) + onDidChangeTextDocument2(n))

DocumentSaved == Deliver("documentSaved", 0, onDidSaveTextDocument)

FilesRenamed == Deliver("filesRenamed", 0, onDidRenameFiles)

FilesDeleted == Deliver("filesDeleted", 0, onDidDeleteFiles)

FilesCreated == Deliver("filesCreated", 0, onDidCreateFiles)

\* the user sets the auto-refresh policy to p while the extension runs
ChangeAutoRefresh(p) ==
    /\ p \in AutoRefreshPreview
    /\ p # config.autoRefreshPreview
    /\ policyChangedFrom' = config.autoRefreshPreview
    /\ config' = [config EXCEPT !.autoRefreshPreview = p]
    /\ UNCHANGED <<serverVars, historyVars, fsEvent, connVars>>

\* ------------------------------------------------------- the specification
\* ------------------------------------------------------------- Connection
MaxSegs == 3           \* longest path asked of getFileRelativeToWorkspace
MaxCalls == 2          \* connected() calls
MaxConfigChanges == 2  \* configuration-change events
MaxResets == 2         \* resetHostToDefault calls in a row

\* serverPortAttributesProvider: `public wsPort = 0; public httpPort = 0`
UnsetPort == 0

DEFAULT_HOST == "127.0.0.1"

Hosts == {DEFAULT_HOST, "0.0.0.0"}

ConnPorts == {3000, 3001}

QueryPorts == ConnPorts \cup {UnsetPort, 3002}

\* a path is a sequence of segments, a segment a sequence of characters
Segments == { <<"a">>, <<"b">>, <<"b", "c">>, <<"x">> }

Separators == {"/", "\\"}

NoWorkspace == [defined |-> FALSE, path |-> <<>>]

Workspaces == { NoWorkspace,
                [defined |-> TRUE, path |-> << <<"a">> >>],
                [defined |-> TRUE, path |-> << <<"a">>, <<"b">> >>] }

RootPrefixes == { <<>>, << <<"b">> >> }

\* the serve roots the settings can name; the last one does not exist
ServeRoots == { << <<"b">> >>, << <<"x">> >>, << <<"b", "c">> >> }

ExistingRoots == { << <<"b">> >>, << <<"x">> >> }

Paths == UNION { [1 .. k -> Segments] : k \in 1 .. MaxSegs }

NoUri == [external |-> FALSE,
          local |-> [host |-> "", port |-> UnsetPort, path |-> ""]]

NoInfo == [fired |-> FALSE, httpURI |-> NoUri, wsURI |-> NoUri,
           workspace |-> NoWorkspace, httpPort |-> UnsetPort, rootPrefix |-> <<>>]

NoRow == [calls |-> 0, startHost |-> "", changes |-> 0, notifications |-> 0,
          errors |-> 0, payload |-> ""]

NoQuery == [asked |-> FALSE, segs |-> <<>>,
            result |-> [defined |-> FALSE, value |-> <<>>]]

Undefined == [defined |-> FALSE, value |-> <<>>]

\* the state after `new Connection(_workspace, _rootPrefix, _httpPort,
\* _wsPort, host)`: the port attributes provider is created with its own
\* initial ports
ConnectionConstructed(_workspace, _rootPrefix, _httpPort, _wsPort, _host) ==
    /\ connWorkspace = _workspace
    /\ connRootPrefix = _rootPrefix
    /\ connHttpPort = _httpPort
    /\ connWsPort = _wsPort
    /\ host = _host
    /\ portAttributes = [httpPort |-> UnsetPort, wsPort |-> UnsetPort]
    /\ calls = {}
    /\ callStats = [started |-> 0]
    /\ lastInfo = NoInfo
    /\ rootPending = {}
    /\ rootStats = [changes |-> 0, started |-> 0]
    /\ resetRow = NoRow
    /\ pathQuery = NoQuery

\* `set httpPort(port)`
SetHttpPort(port) ==
    /\ connHttpPort' = port
    /\ portAttributes' = [portAttributes EXCEPT !.httpPort = port]
    /\ UNCHANGED <<connWorkspace, connRootPrefix, connWsPort, host, calls,
                   callStats, lastInfo, serveRoot, rootPending, rootStats,
                   resetRow, sep, pathQuery>>
    /\ UNCHANGED <<serverVars, historyVars, config, reloadVars>>

\* `set wsPort(port)`
SetWsPort(port) ==
    /\ connWsPort' = port
    /\ portAttributes' = [portAttributes EXCEPT !.wsPort = port]
    /\ UNCHANGED <<connWorkspace, connRootPrefix, connHttpPort, host, calls,
                   callStats, lastInfo, serveRoot, rootPending, rootStats,
                   resetRow, sep, pathQuery>>
    /\ UNCHANGED <<serverVars, historyVars, config, reloadVars>>

\* serverPortAttributesProvider.providePortAttributes
providePortAttributes(port) ==
    IF port = portAttributes.wsPort \/ port = portAttributes.httpPort
    THEN "Silent"
    ELSE "undefined"

\* Connection.constructLocalUri: `http://${this.host}:${port}${path ?? ''}`
constructLocalUri(port, path) == [host |-> host, port |-> port, path |-> path]

\* Connection.wsPath
wsPath == ""

\* vscode.env.asExternalUri: the address the user's machine reaches the local
\* one through
asExternalUri(uri) == [external |-> TRUE, local |-> uri]

\* connected(), up to its first await
connected ==
    /\ callStats.started < MaxCalls
    /\ callStats' = [callStats EXCEPT !.started = @ + 1]
    /\ calls' = calls \cup
          { [id |-> callStats.started + 1, pc |-> "awaitHttp",
             httpPortUri |-> constructLocalUri(connHttpPort, ""),
             wsPortUri |-> constructLocalUri(connWsPort, wsPath),
             externalHTTPUri |-> NoUri, emitted |-> 0] }
    /\ UNCHANGED <<connWorkspace, connRootPrefix, connHttpPort, connWsPort,
                   portAttributes, host, lastInfo, serveRoot, rootPending,
                   rootStats, resetRow, sep, pathQuery>>
    /\ UNCHANGED <<serverVars, historyVars, config, reloadVars>>

\* a finished call keeps its id, how it ended and what it emitted
Finished(c, how, n) ==
    [id |-> c.id, pc |-> how, httpPortUri |-> NoUri, wsPortUri |-> NoUri,
     externalHTTPUri |-> NoUri, emitted |-> n]

\* C13 mutant: the HTTP URI is delivered as an event of its own
connectedHttpResolvedFires(c) ==
    /\ c.pc = "awaitHttp"
    /\ calls' = (calls \ {c}) \cup
          { [c EXCEPT !.pc = "awaitWs",
                      !.externalHTTPUri = asExternalUri(c.httpPortUri),
                      !.emitted = @ + 1] }
    /\ lastInfo' = [fired |-> TRUE,
                    httpURI |-> asExternalUri(c.httpPortUri),
                    wsURI |-> NoUri,
                    workspace |-> connWorkspace,
                    httpPort |-> connHttpPort,
                    rootPrefix |-> connRootPrefix]
    /\ UNCHANGED <<connWorkspace, connRootPrefix, connHttpPort, connWsPort,
                   portAttributes, host, callStats, serveRoot,
                   rootPending, rootStats, resetRow, sep, pathQuery>>
    /\ UNCHANGED <<serverVars, historyVars, config, reloadVars>>

\* connected(): `externalHTTPUri = await asExternalUri(httpPortUri)` resolves
connectedHttpResolved(c) ==
    /\ c.pc = "awaitHttp"
    /\ calls' = (calls \ {c}) \cup
          { [c EXCEPT !.pc = "awaitWs",
                      !.externalHTTPUri = asExternalUri(c.httpPortUri)] }
    /\ UNCHANGED <<connWorkspace, connRootPrefix, connHttpPort, connWsPort,
                   portAttributes, host, callStats, lastInfo, serveRoot,
                   rootPending, rootStats, resetRow, sep, pathQuery>>
    /\ UNCHANGED <<serverVars, historyVars, config, reloadVars>>

\* connected(): `externalWSUri = await asExternalUri(wsPortUri)` resolves and
\* the event is fired from the fields as they are now
connectedWsResolved(c) ==
    /\ c.pc = "awaitWs"
    /\ lastInfo' = [fired |-> TRUE,
                    httpURI |-> c.externalHTTPUri,
                    wsURI |-> asExternalUri(c.wsPortUri),
                    workspace |-> connWorkspace,
                    httpPort |-> connHttpPort,
                    rootPrefix |-> connRootPrefix]
    /\ calls' = (calls \ {c}) \cup {Finished(c, "done", c.emitted + 1)}
    /\ UNCHANGED <<connWorkspace, connRootPrefix, connHttpPort, connWsPort,
                   portAttributes, host, callStats, serveRoot, rootPending,
                   rootStats, resetRow, sep, pathQuery>>
    /\ UNCHANGED <<serverVars, historyVars, config, reloadVars>>

\* connected(): either await rejects and the call ends there
connectedRejected(c) ==
    /\ c.pc \in {"awaitHttp", "awaitWs"}
    /\ calls' = (calls \ {c}) \cup {Finished(c, "rejected", c.emitted)}
    /\ UNCHANGED <<connWorkspace, connRootPrefix, connHttpPort, connWsPort,
                   portAttributes, host, callStats, lastInfo, serveRoot,
                   rootPending, rootStats, resetRow, sep, pathQuery>>
    /\ UNCHANGED <<serverVars, historyVars, config, reloadVars>>

\* PathUtil.GetValidServerRootForWorkspace: the configured serve root when it
\* exists in the workspace, the workspace itself otherwise
GetValidServerRootForWorkspace(root) ==
    IF root \in ExistingRoots THEN root ELSE <<>>

\* the onDidChangeConfiguration handler, up to its await: `affects` is
\* e.affectsConfiguration(SETTINGS_SECTION_ID), `root` the serve root the
\* settings name from now on
ConfigurationChanged(affects, root) ==
    /\ rootStats.changes < MaxConfigChanges
    /\ serveRoot' = IF affects THEN root ELSE serveRoot
    /\ IF affects /\ connWorkspace.defined
       THEN /\ rootPending' = rootPending \cup
                  { [id |-> rootStats.started + 1,
                     root |-> GetValidServerRootForWorkspace(root)] }
            /\ rootStats' = [changes |-> rootStats.changes + 1,
                             started |-> rootStats.started + 1]
            /\ UNCHANGED connRootPrefix
       ELSE /\ connRootPrefix' = IF affects THEN <<>> ELSE connRootPrefix
            /\ rootStats' = [rootStats EXCEPT !.changes = @ + 1]
            /\ UNCHANGED rootPending
    /\ UNCHANGED <<connWorkspace, connHttpPort, connWsPort, portAttributes,
                   host, calls, callStats, lastInfo, resetRow, sep, pathQuery>>
    /\ UNCHANGED <<serverVars, historyVars, config, reloadVars>>

\* the handler after its await: `this._rootPrefix = <the awaited root>`
RootResolved(c) ==
    /\ c \in rootPending
    /\ connRootPrefix' = c.root
    /\ rootPending' = rootPending \ {c}
    /\ UNCHANGED <<connWorkspace, connHttpPort, connWsPort, portAttributes,
                   host, calls, callStats, lastInfo, serveRoot, rootStats,
                   resetRow, sep, pathQuery>>
    /\ UNCHANGED <<serverVars, historyVars, config, reloadVars>>

\* `connection.host = h`: the public field is assigned by its owner
SetHost(h) ==
    /\ host' = h
    /\ resetRow' = NoRow
    /\ UNCHANGED <<connWorkspace, connRootPrefix, connHttpPort, connWsPort,
                   portAttributes, calls, callStats, lastInfo, serveRoot,
                   rootPending, rootStats, sep, pathQuery>>
    /\ UNCHANGED <<serverVars, historyVars, config, reloadVars>>

\* one more call in the row: what it changed, showed and fired
RowAfter(changed) ==
    [calls |-> resetRow.calls + 1,
     startHost |-> IF resetRow.calls = 0 THEN host ELSE resetRow.startHost,
     changes |-> resetRow.changes + (IF changed THEN 1 ELSE 0),
     notifications |-> resetRow.notifications + (IF changed THEN 1 ELSE 0),
     errors |-> resetRow.errors + (IF changed THEN 1 ELSE 0),
     payload |-> IF changed THEN host' ELSE resetRow.payload]

\* C14 mutant: the reset does not look at the host it finds
resetHostToDefaultAlways ==
    /\ resetRow.calls < MaxResets
    /\ host' = DEFAULT_HOST
    /\ resetRow' = RowAfter(TRUE)
    /\ UNCHANGED <<connWorkspace, connRootPrefix, connHttpPort, connWsPort,
                   portAttributes, calls, callStats, lastInfo, serveRoot,
                   rootPending, rootStats, sep, pathQuery>>
    /\ UNCHANGED <<serverVars, historyVars, config, reloadVars>>

\* Connection.resetHostToDefault
resetHostToDefault ==
    /\ resetRow.calls < MaxResets
    /\ IF host # DEFAULT_HOST
       THEN /\ host' = DEFAULT_HOST
            /\ resetRow' = RowAfter(TRUE)
       ELSE /\ UNCHANGED host
            /\ resetRow' = RowAfter(FALSE)
    /\ UNCHANGED <<connWorkspace, connRootPrefix, connHttpPort, connWsPort,
                   portAttributes, calls, callStats, lastInfo, serveRoot,
                   rootPending, rootStats, sep, pathQuery>>
    /\ UNCHANGED <<serverVars, historyVars, config, reloadVars>>

\* ------------------------------------------------------------------ paths
RECURSIVE Render(_, _)
\* the string of a path: every segment after a separator
Render(segs, s) ==
    IF segs = <<>> THEN <<>>
    ELSE <<s>> \o Head(segs) \o Render(Tail(segs), s)

\* String.prototype.startsWith
StartsWith(str, prefix) ==
    /\ Len(prefix) <= Len(str)
    /\ SubSeq(str, 1, Len(prefix)) = prefix

\* String.prototype.substring(start)
Substring(str, start) == SubSeq(str, start + 1, Len(str))

\* PathUtil.PathBeginsWith: the prefix ends where a segment of the path ends
PathBeginsWith(path, root) ==
    /\ StartsWith(path, root)
    /\ Len(path) = Len(root) \/ path[Len(root) + 1] = sep

\* PathUtil.ConvertToPosixPath: every platform separator becomes a slash
ConvertToPosixPath(str) ==
    [i \in 1 .. Len(str) |-> IF str[i] = sep THEN "/" ELSE str[i]]

\* Connection.rootURI: Uri.joinPath(workspace.uri, _rootPrefix)
rootURI ==
    IF connWorkspace.defined
    THEN [defined |-> TRUE, value |-> connWorkspace.path \o connRootPrefix]
    ELSE Undefined

\* Connection.rootPath: rootURI?.fsPath
rootPath ==
    IF rootURI.defined
    THEN [defined |-> TRUE, value |-> Render(rootURI.value, sep)]
    ELSE Undefined

\* C15 mutant: the root is looked for as a plain string prefix
absPathInWorkspaceStartsWith(path) ==
    IF rootPath.defined /\ rootPath.value # <<>>
    THEN StartsWith(path, rootPath.value)
    ELSE FALSE

\* Connection._absPathInWorkspace
absPathInWorkspace(path) ==
    IF rootPath.defined /\ rootPath.value # <<>>
    THEN PathBeginsWith(path, rootPath.value)
    ELSE FALSE

\* Connection.getFileRelativeToWorkspace
getFileRelativeToWorkspace(path) ==
    IF rootPath.defined /\ rootPath.value # <<>> /\ absPathInWorkspace(path)
    THEN [defined |-> TRUE,
          value |-> ConvertToPosixPath(Substring(path, Len(rootPath.value)))]
    ELSE Undefined

\* a caller asks for the file at the absolute path of segments `segs`
GetFileRelativeToWorkspace(segs) ==
    /\ pathQuery' = [asked |-> TRUE, segs |-> segs,
                     result |-> getFileRelativeToWorkspace(Render(segs, sep))]
    /\ UNCHANGED <<connWorkspace, connRootPrefix, connHttpPort, connWsPort,
                   portAttributes, host, calls, callStats, lastInfo, serveRoot,
                   rootPending, rootStats, resetRow, sep>>
    /\ UNCHANGED <<serverVars, historyVars, config, reloadVars>>

\* ----------------------------------------------------------- the programs
\* the Connection the Server's runs leave alone
ConnectionIdle ==
    /\ ConnectionConstructed(NoWorkspace, <<>>, UnsetPort, UnsetPort,
                             DEFAULT_HOST)
    /\ serveRoot = <<>>
    /\ sep = "/"

\* the Server the Connection's runs leave alone
ServerIdle ==
    /\ ServerConstructed
    /\ extensionUri
    /\ workspacePath = "/ws"
    /\ config = [autoRefreshPreview |-> "off",
                 showServerStatusPopUps |-> FALSE]

\* the lifecycle never reads the reload policy: it starts from one
Init ==
    /\ ServerConstructed
    /\ config.autoRefreshPreview = "onAnyChange"
    /\ ConnectionIdle

Next ==
    \/ \E port \in OpenPorts : openServer(port)
    \/ \E keepHttp \in SUBSET httpPending, keepWs \in SUBSET wsPending :
          closeServer(keepHttp, keepWs)
    \/ \E b \in httpPending : \E e \in BoundPorts(b.port) : HttpConnected(b, e)
    \/ \E b \in wsPending : \E e \in BoundPorts(b.port) : WsConnected(b, e)
    \/ DontShowAgain

Spec == Init /\ [][Next]_vars

\* The reload policy: the file-system events and the user's policy changes,
\* around open cycles of a server that has a context and a workspace and
\* whose sub-servers bind the ports they are asked for.
MaxReloadOpens == 1

InitReload ==
    /\ ServerConstructed
    /\ ConnectionIdle
    /\ extensionUri
    /\ workspacePath = "/ws"
    /\ ~config.showServerStatusPopUps

NextReload ==
    \/ \E n \in 0 .. MaxChanges : DocumentChanged(n)
    \/ DocumentSaved
    \/ FilesRenamed
    \/ FilesDeleted
    \/ FilesCreated
    \/ \E p \in AutoRefreshPreview : ChangeAutoRefresh(p)
    \/ \E port \in OpenPorts :
          openCalls.ok < MaxReloadOpens /\ openServer(port)
    \/ \E keepHttp \in SUBSET httpPending, keepWs \in SUBSET wsPending :
          closeServer(keepHttp, keepWs)
    \/ \E b \in httpPending : HttpConnected(b, b.port)
    \/ \E b \in wsPending : WsConnected(b, b.port)

SpecReload == InitReload /\ [][NextReload]_vars

\* The Connection's ports and its connected() calls, suspended at their two
\* awaits while the setters run.
InitConn ==
    /\ ServerIdle
    /\ \E _httpPort \in ConnPorts, _wsPort \in ConnPorts :
          ConnectionConstructed([defined |-> TRUE, path |-> << <<"a">> >>],
                                <<>>, _httpPort, _wsPort, DEFAULT_HOST)
    /\ serveRoot = <<>>
    /\ sep = "/"

NextConn ==
    \/ \E port \in ConnPorts : SetHttpPort(port)
    \/ \E port \in ConnPorts : SetWsPort(port)
    \/ connected
    \/ \E c \in calls : connectedHttpResolved(c)
    \/ \E c \in calls : connectedWsResolved(c)
    \/ \E c \in calls : connectedRejected(c)

SpecConn == InitConn /\ [][NextConn]_vars

\* The Connection's settings: the configuration changes with their root
\* recomputations, and the host with its resets.
InitConfig ==
    /\ ServerIdle
    /\ \E _workspace \in {NoWorkspace, [defined |-> TRUE, path |-> << <<"a">> >>]},
          root \in ServeRoots, _host \in Hosts :
          /\ ConnectionConstructed(
                 _workspace,
                 IF _workspace.defined
                 THEN GetValidServerRootForWorkspace(root) ELSE <<>>,
                 UnsetPort, UnsetPort, _host)
          /\ serveRoot = root
    /\ sep = "/"

NextConfig ==
    \/ \E affects \in BOOLEAN, root \in ServeRoots :
          ConfigurationChanged(affects, root)
    \/ \E c \in rootPending : RootResolved(c)
    \/ \E h \in Hosts : SetHost(h)
    \/ resetHostToDefault

SpecConfig == InitConfig /\ [][NextConfig]_vars

\* getFileRelativeToWorkspace, asked about every path of the bound under
\* every workspace, root prefix and platform.
InitPath ==
    /\ ServerIdle
    /\ \E _workspace \in Workspaces, _rootPrefix \in RootPrefixes :
          /\ ConnectionConstructed(
                 _workspace,
                 IF _workspace.defined THEN _rootPrefix ELSE <<>>,
                 UnsetPort, UnsetPort, DEFAULT_HOST)
          /\ serveRoot = _rootPrefix
    /\ sep \in Separators

NextPath == \E segs \in Paths : GetFileRelativeToWorkspace(segs)

SpecPath == InitPath /\ [][NextPath]_vars

\* ================================================================ properties

\* C1: isServerOn is true only after both the HTTP sub-server and the WS
\* sub-server have reported a successful bind.
C1_RunningOnlyAfterBothReports ==
    isServerOn => (httpReports > 0 /\ wsReports > 0)

\* the server is running after one open cycle in which both sub-servers
\* reported
C1_Witness ==
    /\ isServerOn
    /\ openCalls.ok = 1
    /\ httpReports = 1
    /\ wsReports = 1

\* no bind attempt is in flight
Quiescent == httpPending = {} /\ wsPending = {}

\* C2 as claimed: onFullyConnected fires exactly once per successful
\* openServer call, so once no bind attempt is in flight any more the event
\* has fired as many times as openServer succeeded.
C2_ExactlyOncePerOpen ==
    Quiescent => fullyConnected.count = openCalls.ok

\* C2 as amended: onFullyConnected fires exactly once per WS bound-port
\* report, never before both sub-servers have reported, and at most once per
\* successful openServer call.
C2_OncePerWsReport ==
    /\ fullyConnected.count = wsReports
    /\ fullyConnected.count > 0 => (httpReports > 0 /\ wsReports > 0)
    /\ wsReports <= httpReports
    /\ httpReports <= openCalls.ok

\* openServer was called again while the server was starting or on, and the
\* event has fired once for each of the two calls
C2_Witness ==
    /\ openCalls.ok = 2
    /\ fullyConnected.count = 2
    /\ Quiescent

\* C3: the WS sub-server is started only in the step that handles an HTTP
\* bound-port report, onFullyConnected fires only in the step that handles a
\* WS bound-port report, and a call of openServer starts no WS bind attempt.
C3_StartupOrdering ==
    [][ /\ wsStarts' # wsStarts =>
            (httpReports' = httpReports + 1 /\ wsStarts' = wsStarts + 1)
        /\ wsPending' \ wsPending # {} => httpReports' = httpReports + 1
        /\ fullyConnected'.count # fullyConnected.count =>
            (wsReports' = wsReports + 1 /\ wsStarts' = wsStarts)
        /\ openCalls' # openCalls =>
            (wsStarts' = wsStarts /\ wsPending' = wsPending)
      ]_vars

\* a full open cycle: HTTP reported, then WS was started and reported, then
\* the event fired
C3_Witness ==
    /\ openCalls.ok = 1
    /\ httpReports = 1
    /\ wsStarts = 1
    /\ wsReports = 1
    /\ fullyConnected.count = 1

\* C4 as claimed: whenever isRunning is true the injector WS port equals the
\* last WS bound port.
C4_InjectorIsWsPortWhileRunning ==
    isServerOn => injectorWSPort = lastWsBound

\* C4 as amended: when onFullyConnected fires the injector WS port already is
\* the port the WS sub-server reported, and while isRunning is true it stays
\* that port until the next successful openServer call.
C4_InjectorIsWsPortAtFire ==
    /\ fullyConnected.count > 0 =>
          fullyConnected.injector = fullyConnected.wsBound
    /\ (isServerOn /\ ~openSinceWsReport) => injectorWSPort = lastWsBound

\* openServer(8080), HTTP bound on 8080, WS asked for 8081 and bound on 8082:
\* the injector holds 8082
C4_Witness ==
    /\ isServerOn
    /\ openCalls.ok = 1
    /\ lastOpen.port = 8080
    /\ httpPort = 8080
    /\ lastWsStart.port = 8081
    /\ lastWsBound = 8082
    /\ fullyConnected.count = 1
    /\ fullyConnected.injector = 8082
    /\ injectorWSPort = 8082

\* C5: openServer(port) without an extension context returns false, starts no
\* sub-server and changes no state; with one it returns true, and the HTTP
\* server is started on port holding the provisional injector WS port
\* port + 1.
C5_OpenServer ==
    [][ openCalls' # openCalls =>
          IF extensionUri
          THEN /\ lastOpen'.result = TRUE
               /\ injectorWSPort' = lastOpen'.port + 1
               /\ httpStarts' = httpStarts + 1
               /\ \E b \in httpPending' \ httpPending :
                     /\ httpPending' = httpPending \cup {b}
                     /\ b.port = lastOpen'.port
                     /\ b.injector = lastOpen'.port + 1
                     /\ b.root = workspacePath
          ELSE /\ lastOpen'.result = FALSE
               /\ UNCHANGED serverVars
               /\ httpStarts' = httpStarts
               /\ wsStarts' = wsStarts
      ]_vars

\* openServer(8083) succeeded while the injector still held the port of an
\* earlier cycle, and the HTTP bind attempt it started is in flight
C5_Witness ==
    /\ extensionUri
    /\ lastOpen.called
    /\ lastOpen.result
    /\ lastOpen.port = 8083
    /\ openCalls.ok = 2
    /\ injectorWSPort = 8084
    /\ \E b \in httpPending : b.port = 8083 /\ b.injector = 8084

\* the rule of the reload policy: the event of this kind, with n content
\* changes, calls for a broadcast under this policy
Triggers(kind, n, policy) ==
    \/ kind = "documentChanged" /\ n > 0 /\ policy = "onAnyChange"
    \/ kind = "documentSaved" /\ policy = "onSave"
    \/ /\ kind \in {"filesCreated", "filesDeleted", "filesRenamed"}
       /\ policy \in {"onAnyChange", "onSave"}

\* C6: under onAnyChange a document-changed event with content changes makes
\* exactly one reload broadcast, and one with no content changes makes none.
C6_OneBroadcastPerChange ==
    (fsEvent.kind = "documentChanged" /\ fsEvent.policy = "onAnyChange") =>
        fsEvent.broadcasts = (IF fsEvent.changes > 0 THEN 1 ELSE 0)

\* C7: under onSave a document-changed event makes no reload broadcast and a
\* document-saved event (after it or not) makes exactly one.
C7_OnSave ==
    fsEvent.policy = "onSave" =>
        /\ fsEvent.kind = "documentChanged" => fsEvent.broadcasts = 0
        /\ fsEvent.kind = "documentSaved" => fsEvent.broadcasts = 1

\* a document was changed under onSave and then saved under onSave
C7_Witness ==
    /\ fsEvent.kind = "documentSaved"
    /\ fsEvent.policy = "onSave"
    /\ fsEvent.afterChangeOnSave
    /\ fsEvent.changedFrom = "none"
    /\ fsEvent.broadcasts = 1

\* C8: under policy off no file-system event of any kind makes a reload
\* broadcast, whatever the state of the server.
C8_OffNeverBroadcasts ==
    (fsEvent.kind # "none" /\ fsEvent.policy = "off") => fsEvent.broadcasts = 0

\* files were created under policy off while the server was running
C8_Witness ==
    /\ isServerOn
    /\ wsListening
    /\ fsEvent.kind = "filesCreated"
    /\ fsEvent.policy = "off"
    /\ fsEvent.broadcasts = 0

\* C9: a files-created, files-deleted or files-renamed event makes one reload
\* broadcast when the policy at the event is onAnyChange or onSave, and none
\* otherwise.
C9_FileEvents ==
    fsEvent.kind \in {"filesCreated", "filesDeleted", "filesRenamed"} =>
        fsEvent.broadcasts =
            (IF fsEvent.policy \in {"onAnyChange", "onSave"} THEN 1 ELSE 0)

\* files were deleted under onSave, with one broadcast
C9_Witness ==
    /\ fsEvent.kind = "filesDeleted"
    /\ fsEvent.policy = "onSave"
    /\ fsEvent.broadcasts = 1

\* C10: the event that follows a change of the policy is decided under the
\* new policy, whatever the old and the new policy are: it makes a broadcast
\* exactly when the rule calls for one under the policy in force at the event.
C10_DecidedUnderNewPolicy ==
    fsEvent.changedFrom # "none" =>
        /\ fsEvent.policy # fsEvent.changedFrom
        /\ (fsEvent.broadcasts > 0) <=>
              Triggers(fsEvent.kind, fsEvent.changes, fsEvent.policy)

\* the policy went from off to onSave and the save that followed made a
\* broadcast
C10_Witness ==
    /\ fsEvent.changedFrom = "off"
    /\ fsEvent.policy = "onSave"
    /\ fsEvent.kind = "documentSaved"
    /\ fsEvent.broadcasts = 1

\* some closeServer call, whatever its sub-servers' close() withdraws
closeServerCalled ==
    \E keepHttp \in SUBSET httpPending, keepWs \in SUBSET wsPending :
        closeServer(keepHttp, keepWs)

C16_WsDesiredPort ==
    /\ wsStarts = httpReports
    /\ wsStarts > 0 =>
          /\ lastWsStart.byReport = httpReports
          /\ lastWsStart.port = httpPort + 1
          /\ lastWsStart.root = workspacePath

\* openServer(8080) without a workspace, HTTP bound on 8081: WS is asked for
\* 8082 with the empty root
C16_Witness ==
    /\ openCalls.ok = 1
    /\ lastOpen.port = 8080
    /\ httpPort = 8081
    /\ workspacePath = ""
    /\ lastWsStart.port = 8082
    /\ lastWsStart.root = ""
    /\ wsStarts = 1

\* C17: once closeServer has returned and openServer has not been called
\* again, no step turns isRunning on or fires onFullyConnected.
C17_NoLateResurrection ==
    [][ (closedSinceOpen /\ closedSinceOpen') =>
            /\ ~isServerOn'
            /\ fullyConnected'.count = fullyConnected.count
      ]_vars

\* C19: while the only open cycle is starting (WS asked to bind, not yet
\* reported, server not closed), the injector holds the port the WS
\* sub-server was asked to bind.
C19_ProvisionalIsFirstWsPort ==
    (/\ openCalls.ok = 1
     /\ wsStarts = 1
     /\ wsReports = 0
     /\ ~closedSinceOpen) => injectorWSPort = lastWsStart.port

\* C12: in every state of a Connection, from its construction on and across
\* the httpPort and wsPort assignments, providePortAttributes(p) is Silent
\* exactly when p is the Connection's current httpPort or wsPort, and
\* undefined for every other port.
C12_AdvertiserTracksPorts ==
    \A p \in QueryPorts :
        providePortAttributes(p) = "Silent" <=> p \in {connHttpPort, connWsPort}

\* the call `c`, become `d` by a step, has emitted an event in it
CallEmits(c, d) == d.id = c.id /\ d.emitted > c.emitted

\* C13: a connected() call emits one ConnectionInfo event when it has ended
\* with both external URIs resolved and none otherwise (while either
\* resolution is outstanding, or after one failed); an event is fired only
\* by the call whose WS resolution completes, after its HTTP resolution,
\* and carries both URIs.
C13_OneJointEvent ==
    /\ [](\A c \in calls : c.emitted = IF c.pc = "done" THEN 1 ELSE 0)
    /\ [](lastInfo.fired => lastInfo.httpURI.external /\ lastInfo.wsURI.external)
    /\ [][ /\ \A c \in calls : \A d \in calls' :
                CallEmits(c, d) =>
                    /\ c.pc = "awaitWs" /\ d.pc = "done"
                    /\ c.externalHTTPUri = asExternalUri(c.httpPortUri)
                    /\ lastInfo'.httpURI = c.externalHTTPUri
                    /\ lastInfo'.wsURI = asExternalUri(c.wsPortUri)
           /\ lastInfo' # lastInfo =>
                \E c \in calls : \E d \in calls' : CallEmits(c, d) ]_vars

C13_Witness ==
    /\ \E c \in calls : c.pc = "done" /\ c.emitted = 1
    /\ \E c \in calls : c.pc = "rejected" /\ c.emitted = 0
    /\ lastInfo.fired

\* C14: after one or more resetHostToDefault calls in a row the host is the
\* default host; the row made one host change and one onShouldResetInitHost
\* notification, carrying the default host, when it started from another
\* host, and no change and no notification when it started from the default.
C14_ResetIdempotent ==
    resetRow.calls >= 1 =>
        LET n == IF resetRow.startHost # DEFAULT_HOST THEN 1 ELSE 0
        IN  /\ host = DEFAULT_HOST
            /\ resetRow.changes = n
            /\ resetRow.notifications = n
            /\ n = 1 => resetRow.payload = DEFAULT_HOST

C14_Witness ==
    /\ resetRow.calls = 2
    /\ resetRow.startHost = "0.0.0.0"
    /\ resetRow.changes = 1
    /\ resetRow.notifications = 1
    /\ host = DEFAULT_HOST

\* the segments of the resolved root
RootSegments == connWorkspace.path \o connRootPrefix

\* the path of segments `p` lies inside the root, segment by segment
Inside(p) ==
    /\ connWorkspace.defined
    /\ Len(RootSegments) <= Len(p)
    /\ SubSeq(p, 1, Len(RootSegments)) = RootSegments

C18_InfoConsistent ==
    lastInfo.fired => lastInfo.httpPort = lastInfo.httpURI.local.port

\* C20: once no root recomputation is outstanding, the root prefix is the
\* validated serve root of the most recent configuration change, and the
\* empty string when there is no workspace.
C20_LatestRootWins ==
    rootPending = {} =>
        connRootPrefix = IF connWorkspace.defined
                         THEN GetValidServerRootForWorkspace(serveRoot)
                         ELSE <<>>

====
